---- MODULE Spec2Model ----
(***************************************************************************)
(* Model of heaptrack's gui/model.cpp: the two-level item model over the   *)
(* flat AccumulatedTraceData aggregate (Model::data, index, parent,        *)
(* rowCount, allocationData) and the background load (Model::loadFile).    *)
(***************************************************************************)
EXTENDS Integers, Sequences, FiniteSets, TLC

(***************************************************************************)
(* Bounds of the model.                                                    *)
(***************************************************************************)
\* number of loadFile calls the interactive thread issues
MaxLoads == 2
\* largest row number the view passes to index()
MaxRow == 2

(***************************************************************************)
(* Columns, roles.                                                         *)
(***************************************************************************)
\* enum Columns in the order of the switch of headerData; NUM_COLUMNS is the
\* enumerator after the last column
Columns == <<"FileColumn", "FunctionColumn", "ModuleColumn", "AllocationsColumn",
             "PeakColumn", "LeakedColumn", "AllocatedColumn">>
NUM_COLUMNS == Len(Columns)

\* static_cast<Columns>(column): the enumerator of a column number
ColumnOf(column) ==
    IF column >= 0 /\ column < NUM_COLUMNS THEN Columns[column + 1] ELSE "NUM_COLUMNS"

Roles == {"DisplayRole", "ToolTipRole", "EditRole"}

(***************************************************************************)
(* quintptr and int.  A quintptr is 64 bits wide, kept as four 16-bit      *)
(* limbs, least significant first; an int is 32 bits wide.                 *)
(***************************************************************************)
Limb == 2 ^ 16

\* static_cast<quintptr>(i) of an int i: sign extension to 64 bits
ToQuintptr(i) ==
    LET ext == IF i < 0 THEN Limb - 1 ELSE 0
    IN  << i % Limb, (i \div Limb) % Limb, ext, ext >>

\* static_cast<int>(id) of a quintptr: the low 32 bits, as a signed number
ToInt(id) ==
    IF id[2] >= Limb \div 2 THEN (id[2] - Limb) * Limb + id[1]
    ELSE id[2] * Limb + id[1]

(***************************************************************************)
(* QModelIndex: row, column, internalId and whether it has a model.        *)
(***************************************************************************)
\* QModelIndex(): row -1, column -1, id 0, no model
InvalidIndex == [row |-> -1, column |-> -1, id |-> ToQuintptr(0), model |-> FALSE]

\* QAbstractItemModel::createIndex(row, column, id)
createIndex(row, column, id) ==
    [row |-> row, column |-> column, id |-> id, model |-> TRUE]

\* QModelIndex::isValid()
isValid(index) == index.row >= 0 /\ index.column >= 0 /\ index.model

parentRow(child) ==
    IF isValid(child) THEN ToInt(child.id) ELSE -1

(***************************************************************************)
(* The aggregate (AccumulatedTraceData).  Indices into traces, ips and     *)
(* strings count from 1; 0 is the null index.                              *)
(***************************************************************************)
EmptyData ==
    [mergedAllocations |-> << >>, traces |-> << >>, ips |-> << >>, strings |-> << >>,
     totalTime |-> 0, totalAllocated |-> 0, totalAllocations |-> 0,
     peak |-> 0, leaked |-> 0]

NullTrace == [parentIndex |-> 0, ipIndex |-> 0]
NullIp == [instructionPointer |-> 0, moduleIndex |-> 0, functionIndex |-> 0,
           fileIndex |-> 0, line |-> 0]

findTrace(d, traceIndex) ==
    IF traceIndex = 0 \/ traceIndex > Len(d.traces) THEN NullTrace
    ELSE d.traces[traceIndex]

findIp(d, ipIndex) ==
    IF ipIndex = 0 \/ ipIndex > Len(d.ips) THEN NullIp
    ELSE d.ips[ipIndex]

stringify(d, stringId) ==
    IF stringId = 0 \/ stringId > Len(d.strings) THEN ""
    ELSE d.strings[stringId]

prettyFunction(function) == function

\* one line per frame, from a trace node up to the root
RECURSIVE printBacktrace(_, _)
printBacktrace(d, traceIndex) ==
    IF traceIndex = 0 \/ traceIndex > Len(d.traces) THEN << >>
    ELSE << prettyFunction(stringify(d, findIp(d, d.traces[traceIndex].ipIndex).functionIndex)) >>
         \o printBacktrace(d, d.traces[traceIndex].parentIndex)

(***************************************************************************)
(* QString::number(n, base): the digits of n, lowercase, no leading zero.  *)
(***************************************************************************)
Digits == <<"0", "1", "2", "3", "4", "5", "6", "7",
            "8", "9", "a", "b", "c", "d", "e", "f">>

RECURSIVE QStringNumber(_, _)
QStringNumber(n, base) ==
    IF n < base THEN << Digits[n + 1] >>
    ELSE QStringNumber(n \div base, base) \o << Digits[(n % base) + 1] >>

(***************************************************************************)
(* QVariant values.                                                        *)
(***************************************************************************)
NoValue == [type |-> "invalid"]
UInt64(n) == [type |-> "quint64", n |-> n]
Text(parts) == [type |-> "QString", s |-> parts]

allocationData(d, allocation, ipIndex, column) ==
    CASE column = "AllocationsColumn" -> UInt64(allocation.allocations)
      [] column = "PeakColumn" -> UInt64(allocation.peak)
      [] column = "LeakedColumn" -> UInt64(allocation.leaked)
      [] column = "AllocatedColumn" -> UInt64(allocation.allocated)
      [] column \in {"FileColumn", "ModuleColumn", "FunctionColumn"} ->
            LET ip == findIp(d, ipIndex)
            IN  IF column = "FunctionColumn"
                THEN IF ip.functionIndex # 0
                     THEN Text(<< prettyFunction(stringify(d, ip.functionIndex)) >>)
                     ELSE Text(<< "0x" >> \o QStringNumber(ip.instructionPointer, 16))
                ELSE IF column = "ModuleColumn"
                THEN Text(<< stringify(d, ip.moduleIndex) >>)
                ELSE IF ip.fileIndex # 0
                THEN Text(<< stringify(d, ip.fileIndex), ":" >> \o
                          QStringNumber(ip.line, 10))
                ELSE Text(<< >>)
      [] OTHER -> NoValue

(***************************************************************************)
(* Model::rowCount, Model::index, Model::parent over an aggregate d.       *)
(***************************************************************************)
\* rowCount without the check that the parent is a top-level index
rowCountAnyDepth(d, parent) ==
    IF isValid(parent)
    THEN IF parent.column # 0 \/ parent.row < 0
            \/ parent.row >= Len(d.mergedAllocations)
         THEN 0
         ELSE Len(d.mergedAllocations[parent.row + 1].traces)
    ELSE Len(d.mergedAllocations)

rowCount(d, parent) ==
    IF isValid(parent)
    THEN IF parent.column # 0 \/ parent.row < 0
            \/ parent.row >= Len(d.mergedAllocations)
            \/ parentRow(parent) # -1
         THEN 0
         ELSE Len(d.mergedAllocations[parent.row + 1].traces)
    ELSE Len(d.mergedAllocations)

columnCount(parent) == NUM_COLUMNS

\* index with the column bound of data(), column > NUM_COLUMNS
indexColumnOffByOne(d, row, column, parent) ==
    IF row < 0 \/ column < 0 \/ column > NUM_COLUMNS \/ row >= rowCount(d, parent)
    THEN InvalidIndex
    ELSE createIndex(row, column, ToQuintptr(parent.row))

index(d, row, column, parent) ==
    IF row < 0 \/ column < 0 \/ column >= NUM_COLUMNS \/ row >= rowCount(d, parent)
    THEN InvalidIndex
    ELSE createIndex(row, column, ToQuintptr(parent.row))

\* parent with createIndex(parent, 0, 0): the id of the top-level index lost
parentNullId(child) ==
    LET p == parentRow(child)
    IN  IF p = -1 THEN InvalidIndex
        ELSE createIndex(p, 0, ToQuintptr(0))

parent(child) ==
    LET p == parentRow(child)
    IN  IF p = -1 THEN InvalidIndex
        ELSE createIndex(p, 0, ToQuintptr(-1))

\* QModelIndex::parent(): asks the model of the index, if it has one
indexParent(idx) == IF idx.model THEN parent(idx) ELSE InvalidIndex

(***************************************************************************)
(* Model::data.  The result says which value is returned, or which array   *)
(* was subscripted at a position that is not below its size.               *)
(***************************************************************************)
Returned(v) == [oob |-> "none", pos |-> -1, value |-> v]
OutOfBounds(array, pos) == [oob |-> array, pos |-> pos, value |-> NoValue]

\* the child level without the step to the parent node: the leaf's own frame
dataChildOwnFrame(d, idx, parentIdx, role) ==
    IF isValid(indexParent(parentIdx)) \/ parentIdx.row > Len(d.mergedAllocations)
    THEN Returned(NoValue)
    ELSE IF parentIdx.row >= Len(d.mergedAllocations)
    THEN OutOfBounds("mergedAllocations", parentIdx.row)
    ELSE LET allocation == d.mergedAllocations[parentIdx.row + 1]
         IN  IF idx.row >= Len(allocation.traces)
             THEN OutOfBounds("traces", idx.row)
             ELSE LET trace == allocation.traces[idx.row + 1]
                  IN  IF role = "DisplayRole"
                      THEN LET node == findTrace(d, trace.traceIndex)
                           IN  Returned(allocationData(d, trace, node.ipIndex,
                                                       ColumnOf(idx.column)))
                      ELSE IF role = "ToolTipRole"
                      THEN Returned(Text(printBacktrace(d, trace.traceIndex)))
                      ELSE Returned(NoValue)

\* the child level of data(): parentIdx is index.parent(), already valid
dataChild(d, idx, parentIdx, role) ==
    IF isValid(indexParent(parentIdx)) \/ parentIdx.row > Len(d.mergedAllocations)
    THEN Returned(NoValue)
    ELSE IF parentIdx.row >= Len(d.mergedAllocations)
    THEN OutOfBounds("mergedAllocations", parentIdx.row)
    ELSE LET allocation == d.mergedAllocations[parentIdx.row + 1]
         IN  IF idx.row >= Len(allocation.traces)
             THEN OutOfBounds("traces", idx.row)
             ELSE LET trace == allocation.traces[idx.row + 1]
                  IN  IF role = "DisplayRole"
                      THEN LET node == findTrace(d, findTrace(d, trace.traceIndex).parentIndex)
                           IN  Returned(allocationData(d, trace, node.ipIndex,
                                                       ColumnOf(idx.column)))
                      ELSE IF role = "ToolTipRole"
                      THEN Returned(Text(printBacktrace(d, trace.traceIndex)))
                      ELSE Returned(NoValue)

\* the top level of data()
dataTop(d, idx, role) ==
    IF idx.row > Len(d.mergedAllocations)
    THEN Returned(NoValue)
    ELSE IF idx.row >= Len(d.mergedAllocations)
    THEN OutOfBounds("mergedAllocations", idx.row)
    ELSE LET allocation == d.mergedAllocations[idx.row + 1]
         IN  IF role = "DisplayRole"
             THEN Returned(allocationData(d, allocation, allocation.ipIndex,
                                          ColumnOf(idx.column)))
             ELSE Returned(NoValue)

data(d, idx, role) ==
    IF idx.row < 0 \/ idx.column < 0 \/ idx.column > NUM_COLUMNS
    THEN Returned(NoValue)
    ELSE LET parentIdx == indexParent(idx)
         IN  IF isValid(parentIdx)
             THEN dataChild(d, idx, parentIdx, role)
             ELSE dataTop(d, idx, role)

(***************************************************************************)
(* generateSummary: the totals and the two rates.  totalTimeS is            *)
(* 0.001 * totalTime; with totalTime = 0 the rate is the conversion of an  *)
(* infinity or a NaN to size_t, whose result the language leaves open.      *)
(***************************************************************************)
generateSummary(d) ==
    { [totalTime |-> d.totalTime,
       totalAllocated |-> d.totalAllocated,
       totalAllocations |-> d.totalAllocations,
       callsPerSecond |-> r,
       peak |-> d.peak,
       leaked |-> d.leaked] :
      r \in IF d.totalTime # 0
            THEN { QStringNumber((d.totalAllocations * 1000) \div d.totalTime, 10) }
            ELSE { << "0" >>, << "8", "0", "0", "0", "0", "0", "0", "0",
                               "0", "0", "0", "0", "0", "0", "0", "0" >> } }

NoSummary == [totalTime |-> -1]

(***************************************************************************)
(* The trace files and what AccumulatedTraceData::read makes of them.      *)
(***************************************************************************)
Files == {"a.trace", "b.trace", "corrupt.trace"}

\* two records; the first has two traces, X called from Y and X called from Z
DataA ==
    [mergedAllocations |->
        << [allocations |-> 5, peak |-> 1024, leaked |-> 0, allocated |-> 4096,
            ipIndex |-> 1,
            traces |-> << [traceIndex |-> 3, allocations |-> 3, peak |-> 512,
                           leaked |-> 0, allocated |-> 2048],
                          [traceIndex |-> 4, allocations |-> 2, peak |-> 512,
                           leaked |-> 0, allocated |-> 2048] >>],
           [allocations |-> 1, peak |-> 16, leaked |-> 16, allocated |-> 16,
            ipIndex |-> 4,
            traces |-> << [traceIndex |-> 5, allocations |-> 1, peak |-> 16,
                           leaked |-> 16, allocated |-> 16] >>] >>,
     traces |-> << [parentIndex |-> 0, ipIndex |-> 2],
                   [parentIndex |-> 0, ipIndex |-> 3],
                   [parentIndex |-> 1, ipIndex |-> 1],
                   [parentIndex |-> 2, ipIndex |-> 1],
                   [parentIndex |-> 0, ipIndex |-> 4] >>,
     ips |-> << [instructionPointer |-> 256, moduleIndex |-> 1, functionIndex |-> 2,
                 fileIndex |-> 5, line |-> 10],
                [instructionPointer |-> 512, moduleIndex |-> 1, functionIndex |-> 3,
                 fileIndex |-> 6, line |-> 20],
                [instructionPointer |-> 768, moduleIndex |-> 1, functionIndex |-> 4,
                 fileIndex |-> 7, line |-> 30],
                [instructionPointer |-> 4096, moduleIndex |-> 0, functionIndex |-> 0,
                 fileIndex |-> 0, line |-> 0] >>,
     strings |-> << "app", "X", "Y", "Z", "x.cpp", "y.cpp", "z.cpp" >>,
     totalTime |-> 2000, totalAllocated |-> 4112, totalAllocations |-> 6,
     peak |-> 1040, leaked |-> 16]

\* one record with one trace, B called from A
DataB ==
    [mergedAllocations |->
        << [allocations |-> 7, peak |-> 64, leaked |-> 8, allocated |-> 128,
            ipIndex |-> 2,
            traces |-> << [traceIndex |-> 2, allocations |-> 7, peak |-> 64,
                           leaked |-> 8, allocated |-> 128] >>] >>,
     traces |-> << [parentIndex |-> 0, ipIndex |-> 1],
                   [parentIndex |-> 1, ipIndex |-> 2] >>,
     ips |-> << [instructionPointer |-> 16, moduleIndex |-> 1, functionIndex |-> 2,
                 fileIndex |-> 4, line |-> 1],
                [instructionPointer |-> 32, moduleIndex |-> 1, functionIndex |-> 3,
                 fileIndex |-> 5, line |-> 2] >>,
     strings |-> << "libb", "A", "B", "a.cpp", "b.cpp" >>,
     totalTime |-> 1000, totalAllocated |-> 128, totalAllocations |-> 7,
     peak |-> 64, leaked |-> 8]

\* whether read succeeds on a file
Readable(file) == file \in {"a.trace", "b.trace"}

\* the aggregate read builds from a readable file
Parsed(file) == IF file = "a.trace" THEN DataA ELSE DataB

\* the aggregate while read is at work on a file: the old one (the file could
\* not be opened), or the tables of the new one with the first k records
readPartial(old, file) ==
    IF Readable(file)
    THEN { [Parsed(file) EXCEPT !.mergedAllocations = SubSeq(@, 1, k)] :
           k \in 0 .. Len(Parsed(file).mergedAllocations) - 1 }
    ELSE { old, EmptyData }

\* the aggregate two reads running at once may leave: the records of one with
\* the tables of neither
Torn(d) == [d EXCEPT !.traces = << >>, !.ips = << >>, !.strings = << >>]

\* the aggregate when read returns; racing is whether another read is at work
readResult(current, file, racing) ==
    LET done == IF Readable(file) THEN Parsed(file) ELSE current
    IN  IF racing THEN { done, Torn(done) } ELSE { done }

(***************************************************************************)
(* State.                                                                  *)
(*   m_data  the aggregate of the model                                    *)
(*   jobs    one entry per loadFile call: the file, where its job stands,  *)
(*           and the summary it emitted with dataReady                     *)
(*   held    the index the view holds (the last one index/parent returned) *)
(*   last    the last call of the view and, for rowCount and data, its      *)
(*           outcome                                                       *)
(***************************************************************************)
VARIABLES m_data, jobs, held, last

vars == << m_data, jobs, held, last >>

NoCall == [op |-> "none", n |-> 0, oob |-> "none", pos |-> -1,
           value |-> NoValue, crashed |-> FALSE]

\* what a read out of bounds may have fetched
Garbage == [type |-> "garbage"]

Init ==
    /\ m_data = EmptyData
    /\ jobs = << >>
    /\ held = InvalidIndex
    /\ last = NoCall

\* the process runs until a read out of bounds has killed it
Alive == ~last.crashed

JobIds == 1 .. Len(jobs)
InBracket(j) == jobs[j].pc \in {"begun", "reading", "readDone"}
Reading(j) == jobs[j].pc = "reading"

(***************************************************************************)
(* Model::loadFile: the call queues a job; the job's four statements run   *)
(* on a thread of the global ThreadWeaver queue.                           *)
(***************************************************************************)
loadFile(file) ==
    /\ Alive
    /\ Len(jobs) < MaxLoads
    /\ jobs' = Append(jobs, [file |-> file, pc |-> "queued", summary |-> NoSummary])
    /\ UNCHANGED << m_data, held, last >>

\* a thread of the queue takes the job queued first and runs its first statement
beginResetModel(j) ==
    /\ Alive
    /\ jobs[j].pc = "queued"
    /\ \A k \in 1 .. j - 1 : jobs[k].pc # "queued"
    /\ jobs' = [jobs EXCEPT ![j].pc = "begun"]
    /\ UNCHANGED << m_data, held, last >>

\* read moved in front of beginResetModel
readStartUnbracketed(j) ==
    /\ Alive
    /\ jobs[j].pc \in {"queued", "begun"}
    /\ m_data' \in readPartial(m_data, jobs[j].file)
    /\ jobs' = [jobs EXCEPT ![j].pc = "reading"]
    /\ UNCHANGED << held, last >>

\* m_data.read(file) starts to change the aggregate
readStart(j) ==
    /\ Alive
    /\ jobs[j].pc = "begun"
    /\ m_data' \in readPartial(m_data, jobs[j].file)
    /\ jobs' = [jobs EXCEPT ![j].pc = "reading"]
    /\ UNCHANGED << held, last >>

\* m_data.read(file) returns; what it returns is dropped
readFinish(j) ==
    /\ Alive
    /\ jobs[j].pc = "reading"
    /\ m_data' \in readResult(m_data, jobs[j].file,
                              \E k \in JobIds : k # j /\ Reading(k))
    /\ jobs' = [jobs EXCEPT ![j].pc = "readDone"]
    /\ UNCHANGED << held, last >>

endResetModel(j) ==
    /\ Alive
    /\ jobs[j].pc = "readDone"
    /\ jobs' = [jobs EXCEPT ![j].pc = "ended"]
    /\ UNCHANGED << m_data, held, last >>

\* emit dataReady(generateSummary(m_data))
emitDataReady(j) ==
    /\ Alive
    /\ jobs[j].pc = "ended"
    /\ \E summary \in generateSummary(m_data) :
          jobs' = [jobs EXCEPT ![j].pc = "done", ![j].summary = summary]
    /\ UNCHANGED << m_data, held, last >>

(***************************************************************************)
(* The view, on the interactive thread.                                    *)
(***************************************************************************)
QueryRows == -1 .. MaxRow
QueryColumns == {-1, 0, 3, NUM_COLUMNS}

\* index(row, column, parent), parent the root or the held index
viewIndex(row, column, under) ==
    /\ Alive
    /\ held' = index(m_data, row, column, IF under THEN held ELSE InvalidIndex)
    /\ last' = [NoCall EXCEPT !.op = "index"]
    /\ UNCHANGED << m_data, jobs >>

viewParent ==
    /\ Alive
    /\ held' = indexParent(held)
    /\ last' = [NoCall EXCEPT !.op = "parent"]
    /\ UNCHANGED << m_data, jobs >>

viewRowCount ==
    /\ Alive
    /\ last' = [NoCall EXCEPT !.op = "rowCount", !.n = rowCount(m_data, held)]
    /\ UNCHANGED << m_data, jobs, held >>

\* whether data(idx, role) goes on to use the element it subscripted
UsesElement(idx, role) ==
    \/ role = "DisplayRole"
    \/ role = "ToolTipRole" /\ isValid(indexParent(idx))

\* data(held, role); a subscript out of bounds kills the process or goes on
\* with whatever was fetched
viewData(role) ==
    /\ Alive
    /\ LET r == data(m_data, held, role)
       IN  IF r.oob = "none"
           THEN last' = [NoCall EXCEPT !.op = "data", !.value = r.value]
           ELSE \E crashed \in BOOLEAN :
                   last' = [op |-> "data", n |-> 0, oob |-> r.oob, pos |-> r.pos,
                            value |-> IF ~crashed /\ UsesElement(held, role)
                                      THEN Garbage ELSE NoValue,
                            crashed |-> crashed]
    /\ UNCHANGED << m_data, jobs, held >>

Next ==
    \/ \E file \in Files : loadFile(file)
    \/ \E j \in JobIds : beginResetModel(j)
    \/ \E j \in JobIds : readStart(j)
    \/ \E j \in JobIds : readFinish(j)
    \/ \E j \in JobIds : endResetModel(j)
    \/ \E j \in JobIds : emitDataReady(j)
    \/ \E row \in QueryRows, column \in QueryColumns, under \in BOOLEAN :
          viewIndex(row, column, under)
    \/ viewParent
    \/ viewRowCount
    \/ \E role \in Roles : viewData(role)

Spec == Init /\ [][Next]_vars

\* a thread of the queue that has a job goes on with it
JobStep(j) ==
    /\ j \in JobIds
    /\ \/ beginResetModel(j)
       \/ readStart(j)
       \/ readFinish(j)
       \/ endResetModel(j)
       \/ emitDataReady(j)

FairSpec == Spec /\ \A j \in 1 .. MaxLoads : WF_vars(JobStep(j))

(***************************************************************************)
(* The same program with a caller that waits for a load to be done before  *)
(* it asks for the next, and a view that leaves the model alone from a     *)
(* begin-reset to its end-reset.                                           *)
(***************************************************************************)
NoLoadPending == \A j \in JobIds : jobs[j].pc = "done"
NoResetOpen == \A j \in JobIds : ~InBracket(j)

SeqNext ==
    \/ NoLoadPending /\ \E file \in Files : loadFile(file)
    \/ \E j \in JobIds : beginResetModel(j)
    \/ \E j \in JobIds : readStart(j)
    \/ \E j \in JobIds : readFinish(j)
    \/ \E j \in JobIds : endResetModel(j)
    \/ \E j \in JobIds : emitDataReady(j)
    \/ NoResetOpen /\ \E row \in QueryRows, column \in QueryColumns, under \in BOOLEAN :
          viewIndex(row, column, under)
    \/ NoResetOpen /\ viewParent
    \/ NoResetOpen /\ viewRowCount
    \/ NoResetOpen /\ \E role \in Roles : viewData(role)

SeqSpec == Init /\ [][SeqNext]_vars

SeqFairSpec == SeqSpec /\ \A j \in 1 .. MaxLoads : WF_vars(JobStep(j))

(***************************************************************************)
(* The load alone: loadFile calls and their jobs, no view.                 *)
(***************************************************************************)
LoadNext ==
    \/ \E file \in Files : loadFile(file)
    \/ \E j \in JobIds : beginResetModel(j)
    \/ \E j \in JobIds : readStart(j)
    \/ \E j \in JobIds : readFinish(j)
    \/ \E j \in JobIds : endResetModel(j)
    \/ \E j \in JobIds : emitDataReady(j)

LoadSpec == Init /\ [][LoadNext]_vars

(***************************************************************************)
(* The projection alone: the view's calls on each aggregate a load can     *)
(* leave or pass through.                                                  *)
(***************************************************************************)
Aggregates ==
    {EmptyData, DataA, DataB, Torn(DataA), Torn(DataB)}
    \cup UNION { readPartial(EmptyData, file) : file \in Files }

QueryInit ==
    /\ m_data \in Aggregates
    /\ jobs = << >>
    /\ held = InvalidIndex
    /\ last = NoCall

QueryNext ==
    \/ \E row \in QueryRows, column \in QueryColumns, under \in BOOLEAN :
          viewIndex(row, column, under)
    \/ viewParent
    \/ viewRowCount
    \/ \E role \in Roles : viewData(role)

QuerySpec == QueryInit /\ [][QueryNext]_vars

(***************************************************************************)
(* Properties.                                                             *)
(***************************************************************************)
Records == m_data.mergedAllocations
TopRows == 0 .. Len(Records) - 1
ChildRows(p) == 0 .. Len(Records[p + 1].traces) - 1
AllColumns == 0 .. NUM_COLUMNS - 1
Top(p, column) == index(m_data, p, column, InvalidIndex)
Child(p, c, column) == index(m_data, c, column, Top(p, 0))

\* the indexes createIndex can have made: any row, column and parent tag
Tags == -1 .. MaxRow
Made(r, c, t) == createIndex(r, c, ToQuintptr(t))
Handles == {InvalidIndex} \cup { Made(r, c, t) : r \in 0 .. MaxRow, c \in AllColumns, t \in Tags }

\* C1: whatever index the view presents to data(), also one it got from
\* index() before a load and presents after the end-reset of that load, data()
\* returns the empty value or the value of an existing row, and subscripts
\* neither mergedAllocations nor a record's traces at a position that is not
\* below the size.
C1_DataStaysInBounds ==
    last.op = "data" =>
        /\ last.oob = "none"
        /\ ~last.crashed
        /\ last.value # Garbage

\* C2: rowCount is the number of records for the root, the number of traces of
\* record r for a top-level index of column 0 and row r in range, and 0 for
\* every other index; rowCount(index(r, 0, root)) is the number of traces of r.
C2_RowCount ==
    /\ rowCount(m_data, InvalidIndex) = Len(Records)
    /\ \A r \in 0 .. MaxRow, c \in AllColumns, t \in Tags :
          rowCount(m_data, Made(r, c, t)) =
             IF c = 0 /\ t = -1 /\ r < Len(Records)
             THEN Len(Records[r + 1].traces) ELSE 0
    /\ \A r \in TopRows : rowCount(m_data, Top(r, 0)) = Len(Records[r + 1].traces)
    /\ last.op = "rowCount" =>
          last.n = IF held = InvalidIndex THEN Len(Records)
                   ELSE IF held.column = 0 /\ held.id = ToQuintptr(-1)
                           /\ held.row < Len(Records)
                   THEN Len(Records[held.row + 1].traces) ELSE 0

C2_Witness ==
    /\ last.op = "rowCount"
    /\ isValid(held)
    /\ last.n = 2

\* C3: parent() inverts index(): the parent of a child index is the top-level
\* index of its parent row, column 0; the parent of a top-level index of any
\* column is the root; the decoded no-parent tag is never a parent row.
C3_ParentInvertsIndex ==
    /\ \A p \in TopRows, column \in AllColumns :
          /\ isValid(Top(p, column))
          /\ parent(Top(p, column)) = InvalidIndex
          /\ parentRow(Top(p, column)) = -1
          /\ parentRow(Made(p, column, -1)) = -1
          /\ \A c \in ChildRows(p) :
                /\ isValid(Child(p, c, column))
                /\ parent(Child(p, c, column)) = Top(p, 0)
                /\ parentRow(Child(p, c, column)) = p
                /\ parent(parent(Child(p, c, column))) = InvalidIndex
    /\ \A r \in {0, 1, Limb - 1, Limb, (Limb \div 2 - 1) * Limb + (Limb - 1)} :
          /\ ToInt(ToQuintptr(r)) = r
          /\ parentRow(createIndex(0, 0, ToQuintptr(r))) # -1
    /\ last.op = "parent" =>
          \/ held = InvalidIndex
          \/ held \in { Top(p, 0) : p \in TopRows }

C3_Witness ==
    /\ last.op = "parent"
    /\ isValid(held)
    /\ held = Top(1, 0)

\* C4: index(row, column, parent) is the invalid index when row < 0,
\* row >= rowCount(parent), column < 0 or column >= 7, whatever the parent;
\* otherwise it carries the row, the column and the tag of the parent: no
\* parent for the root, the parent's row otherwise.  No valid index lies
\* beneath a child index.
C4_IndexBounds ==
    /\ \A parentIdx \in Handles, row \in -1 .. MaxRow + 1, column \in -1 .. NUM_COLUMNS + 1 :
          LET h == index(m_data, row, column, parentIdx)
          IN  /\ IF row < 0 \/ row >= rowCount(m_data, parentIdx)
                    \/ column < 0 \/ column >= 7
                 THEN h = InvalidIndex
                 ELSE /\ isValid(h)
                      /\ h.row = row
                      /\ h.column = column
                      /\ parentRow(h) = IF isValid(parentIdx) THEN parentIdx.row ELSE -1
              /\ parentRow(parentIdx) # -1 => h = InvalidIndex
    /\ last.op = "index" /\ isValid(held) =>
          /\ held.column < 7
          /\ IF parentRow(held) = -1
             THEN held.row < Len(Records)
             ELSE /\ parentRow(held) < Len(Records)
                  /\ held.row < Len(Records[parentRow(held) + 1].traces)

C4_Witness ==
    /\ last.op = "index"
    /\ isValid(held)
    /\ parentRow(held) = 0
    /\ held.row = 1

\* the ip of the caller of trace node traceIndex, read off the node table
CallerIp(d, traceIndex) ==
    IF d.traces[traceIndex].parentIndex = 0 THEN 0
    ELSE d.traces[d.traces[traceIndex].parentIndex].ipIndex

Resolves(d, traceIndex) ==
    /\ traceIndex \in 1 .. Len(d.traces)
    /\ d.traces[traceIndex].parentIndex \in 0 .. Len(d.traces)

\* C5: for a child index (parent row p, row c) and the display role, the
\* File, Function and Module columns come from the ip of the parent of the
\* trace node of the c-th trace of record p, not from the node's own ip, in
\* the order of the traces: X called from Y and X called from Z show Y in
\* child row 0 and Z in child row 1.
C5_ChildShowsCallerFrame ==
    /\ \A p \in TopRows : \A c \in ChildRows(p) : \A column \in 0 .. 2 :
          LET trace == Records[p + 1].traces[c + 1]
          IN  Resolves(m_data, trace.traceIndex) =>
                 data(m_data, Child(p, c, column), "DisplayRole") =
                    Returned(allocationData(m_data, trace,
                                            CallerIp(m_data, trace.traceIndex),
                                            Columns[column + 1]))
    /\ m_data = DataA =>
          /\ data(m_data, Child(0, 0, 1), "DisplayRole").value = Text(<< "Y" >>)
          /\ data(m_data, Child(0, 1, 1), "DisplayRole").value = Text(<< "Z" >>)
          /\ data(m_data, Child(0, 0, 0), "DisplayRole").value
                = Text(<< "y.cpp", ":", "2", "0" >>)
          /\ data(m_data, Child(0, 1, 0), "DisplayRole").value
                = Text(<< "z.cpp", ":", "3", "0" >>)
          /\ data(m_data, Child(0, 1, 2), "DisplayRole").value = Text(<< "app" >>)
    /\ m_data = DataB =>
          data(m_data, Child(0, 0, 1), "DisplayRole").value = Text(<< "A" >>)
    /\ m_data = DataA /\ last.op = "data" /\ held = Child(0, 1, 0) =>
          last.value \in { NoValue, Text(<< "X", "Z" >>),
                           Text(<< "z.cpp", ":", "3", "0" >>) }

C5_Witness ==
    /\ m_data = DataA
    /\ last.op = "data"
    /\ held = Child(0, 1, 0)
    /\ last.value = Text(<< "z.cpp", ":", "3", "0" >>)

Begins(j) == jobs[j].pc = "queued" /\ jobs'[j].pc = "begun"
Mutates(j) ==
    /\ jobs[j].pc \in {"begun", "reading"}
    /\ jobs'[j].pc \in {"reading", "readDone"}
    /\ jobs'[j].pc # jobs[j].pc
Ends(j) == jobs[j].pc # "ended" /\ jobs'[j].pc = "ended"

C7_QueriesSeeWholeLoads ==
    [][ (held' # held \/ last' # last) => \A j \in JobIds : ~Reading(j) ]_vars

\* every reference of the aggregate resolves
WellFormed(d) ==
    /\ \A r \in 1 .. Len(d.mergedAllocations) :
          /\ d.mergedAllocations[r].ipIndex \in 1 .. Len(d.ips)
          /\ \A t \in 1 .. Len(d.mergedAllocations[r].traces) :
                d.mergedAllocations[r].traces[t].traceIndex \in 1 .. Len(d.traces)
    /\ \A n \in 1 .. Len(d.traces) :
          /\ d.traces[n].parentIndex \in 0 .. Len(d.traces)
          /\ d.traces[n].ipIndex \in 1 .. Len(d.ips)
    /\ \A i \in 1 .. Len(d.ips) :
          /\ d.ips[i].moduleIndex \in 0 .. Len(d.strings)
          /\ d.ips[i].functionIndex \in 0 .. Len(d.strings)
          /\ d.ips[i].fileIndex \in 0 .. Len(d.strings)

FailedLoadOpen(j) ==
    /\ j \in JobIds
    /\ ~Readable(jobs[j].file)
    /\ InBracket(j)

FailedLoadEnded(j) ==
    /\ j \in JobIds
    /\ ~Readable(jobs[j].file)
    /\ jobs[j].pc \in {"ended", "done"}

\* C8: a loadFile whose read fails still gets its end-reset after its
\* begin-reset, and the aggregate on view at the end-reset is well-formed.
C8_FailedLoadCompletes ==
    /\ \A j \in 1 .. MaxLoads : FailedLoadOpen(j) ~> FailedLoadEnded(j)
    /\ [](\A j \in 1 .. MaxLoads :
             (FailedLoadEnded(j) /\ jobs[j].pc = "ended") => WellFormed(m_data))

\* C9: dataReady is emitted once per successful load, after its end-reset and
\* from the totals of the aggregate it committed; a load whose read fails
\* emits none.
C9_SummaryPerSuccessfulLoad ==
    \A j \in JobIds :
        /\ jobs[j].summary # NoSummary =>
              /\ jobs[j].pc = "done"
              /\ Readable(jobs[j].file)
        /\ (jobs[j].pc = "done" /\ Readable(jobs[j].file)) =>
              jobs[j].summary \in generateSummary(Parsed(jobs[j].file))

\* C10: with loadFile called again before an earlier load is done, the reset
\* brackets do not overlap, at most one job changes the aggregate at a time,
\* and every summary is of the aggregate of the load that emitted it.
C10_BracketsDoNotOverlap ==
    /\ Cardinality({ j \in JobIds : InBracket(j) }) <= 1
    /\ \A j \in JobIds :
          (jobs[j].pc = "done" /\ Readable(jobs[j].file)) =>
              jobs[j].summary \in generateSummary(Parsed(jobs[j].file))

====
